---- MODULE Spec2Model ----
(***************************************************************************)
(* InsightAgent engine: semantic column resolution, derived metrics, rule   *)
(* evaluation and the LangGraph pipeline that chains them.                  *)
(*                                                                          *)
(* Python strings are TLA+ strings (sequences of characters); Optional[str] *)
(* and raised exceptions are tagged records so that None, "" and a raise    *)
(* stay distinguishable.                                                    *)
(***************************************************************************)
EXTENDS Integers, Sequences, FiniteSets, TLC

VARIABLES
    columns,    \* resolver input: the header sequence handed to __call__
    hints,      \* resolver input: the hints dict, as a sequence of <<key, value>> items
    mapping,    \* resolver output: [raised, map]
    rpc,        \* resolver position: "call" before __call__, "done" after
    colmap,     \* metric stage input: the ColumnMapping, canonical -> Optional[str]
    records,    \* metric stage input: the raw records, header -> value
    summary,    \* metric stage output: the MetricSummary

    mpc,        \* metric stage position
    rules,      \* rule stage: RuleBasedInsightAgent.rules, the registry after __init__
    ctx,        \* rule stage input: the MetricSummary the agent is called on
    insights,   \* rule stage output: the findings
    ipc,        \* rule stage position
    payload,    \* engine input: [form, data, column_hints] given to InsightEngine.run
    epc,        \* engine position: the next step of run, "done" or "raised"
    estate,     \* engine: the EngineState dict passed from node to node
    trace,      \* engine: the collaborators invoked so far, in order
    error,      \* engine: the exception that left run, "" if none
    response    \* engine output: the InsightResponse

resolverVars == <<columns, hints, mapping, rpc>>
metricVars == <<colmap, records, summary, mpc>>
ruleVars == <<rules, ctx, insights, ipc>>
engineVars == <<payload, epc, estate, trace, error, response>>

vars == <<resolverVars, metricVars, ruleVars, engineVars>>

(***************************************************************************)
(* Bounds of the explored inputs.                                           *)
(***************************************************************************)
MaxHeaders == 3
MaxHints == 1
MaxCells == 3
MaxRows == 1
MaxExtraRules == 1
MaxRecords == 2

(***************************************************************************)
(* Python values.                                                           *)
(***************************************************************************)
NoneV == [kind |-> "None", val |-> ""]
Str(s) == [kind |-> "str", val |-> s]
Raise(e) == [kind |-> "raise", val |-> e]

\* bool(x) for an Optional[str]: None and "" are falsy
Truthy(o) == o.kind = "str" /\ o.val # ""

(***************************************************************************)
(* String primitives used by column_identifier.py.                          *)
(***************************************************************************)
Whitespace == {" ", "\t", "\n"}
LowerAlnum == {"a","b","c","d","e","f","g","h","i","j","k","l","m","n","o","p","q",
               "r","s","t","u","v","w","x","y","z","0","1","2","3","4","5","6","7",
               "8","9"}

LowerChar(c) ==
    CASE c = "A" -> "a" [] c = "B" -> "b" [] c = "C" -> "c" [] c = "D" -> "d"
      [] c = "E" -> "e" [] c = "F" -> "f" [] c = "G" -> "g" [] c = "H" -> "h"
      [] c = "I" -> "i" [] c = "J" -> "j" [] c = "K" -> "k" [] c = "L" -> "l"
      [] c = "M" -> "m" [] c = "N" -> "n" [] c = "O" -> "o" [] c = "P" -> "p"
      [] c = "Q" -> "q" [] c = "R" -> "r" [] c = "S" -> "s" [] c = "T" -> "t"
      [] c = "U" -> "u" [] c = "V" -> "v" [] c = "W" -> "w" [] c = "X" -> "x"
      [] c = "Y" -> "y" [] c = "Z" -> "z" [] OTHER -> c

RECURSIVE Lower(_)
Lower(s) == IF s = "" THEN "" ELSE LowerChar(Head(s)) \o Lower(Tail(s))

Last(s) == SubSeq(s, Len(s), Len(s))
ButLast(s) == SubSeq(s, 1, Len(s) - 1)

RECURSIVE LStrip(_)
LStrip(s) == IF s = "" THEN ""
             ELSE IF Head(s) \in Whitespace THEN LStrip(Tail(s)) ELSE s

RECURSIVE RStrip(_)
RStrip(s) == IF s = "" THEN ""
             ELSE IF Last(s) \in Whitespace THEN RStrip(ButLast(s)) ELSE s

\* str.strip()
Strip(s) == RStrip(LStrip(s))

\* re.sub(r"[^a-z0-9]+", " ", s): inRun is TRUE while inside a run already replaced
RECURSIVE SubNonAlnum(_, _)
SubNonAlnum(s, inRun) ==
    IF s = "" THEN ""
    ELSE IF Head(s) \in LowerAlnum THEN Head(s) \o SubNonAlnum(Tail(s), FALSE)
    ELSE IF inRun THEN SubNonAlnum(Tail(s), TRUE)
    ELSE " " \o SubNonAlnum(Tail(s), TRUE)

\* re.sub(r"\s+", " ", s)
RECURSIVE SubSpaces(_, _)
SubSpaces(s, inRun) ==
    IF s = "" THEN ""
    ELSE IF Head(s) \notin Whitespace THEN Head(s) \o SubSpaces(Tail(s), FALSE)
    ELSE IF inRun THEN SubSpaces(Tail(s), TRUE)
    ELSE " " \o SubSpaces(Tail(s), TRUE)

\* s.replace(" ", ""), character by character
RECURSIVE RemoveSpacesSteps(_)
RemoveSpacesSteps(s) ==
    IF s = "" THEN ""
    ELSE IF Head(s) = " " THEN RemoveSpacesSteps(Tail(s))
    ELSE Head(s) \o RemoveSpacesSteps(Tail(s))

\* s.startswith(p)
StartsWith(s, p) == Len(p) <= Len(s) /\ SubSeq(s, 1, Len(p)) = p

\* the first item of s.split(): the leading whitespace-delimited token, or the
\* IndexError that [0] raises on an empty list
RECURSIVE TakeToken(_)
TakeToken(s) == IF s = "" \/ Head(s) \in Whitespace THEN ""
                ELSE Head(s) \o TakeToken(Tail(s))

SplitFirst(s) == IF LStrip(s) = "" THEN Raise("IndexError")
                 ELSE Str(TakeToken(LStrip(s)))

\* label.strip().lower(), the two re.sub calls, .strip()
NormalizeSteps(label) ==
    Strip(SubSpaces(SubNonAlnum(Lower(Strip(label)), FALSE), FALSE))

(***************************************************************************)
(* schemas.py: the canonical vocabulary, in dict order.                     *)
(***************************************************************************)
CanonicalOrder ==
    <<"campaign_name", "ad_set_name", "ad_name", "ad_id", "spend", "impressions",
      "clicks", "ctr", "frequency", "roas", "purchases", "purchase_value",
      "adds_to_cart", "ctr_7d", "ctr_prev7", "status">>

CanonicalNames == {CanonicalOrder[i] : i \in DOMAIN CanonicalOrder}

CANONICAL_COLUMNS ==
    [c \in CanonicalNames |->
        CASE c = "campaign_name"  -> <<"campaign name", "campaign">>
          [] c = "ad_set_name"    -> <<"ad set name", "adset", "ad set">>
          [] c = "ad_name"        -> <<"ad name", "ad">>
          [] c = "ad_id"          -> <<"ad id", "creative id", "asset id">>
          [] c = "spend"          -> <<"spend", "cost">>
          [] c = "impressions"    -> <<"impressions", "impr">>
          [] c = "clicks"         -> <<"clicks", "link clicks">>
          [] c = "ctr"            -> <<"ctr", "click through rate", "ctr %">>
          [] c = "frequency"      -> <<"frequency">>
          [] c = "roas"           -> <<"roas", "return on ad spend">>
          [] c = "purchases"      -> <<"purchases", "purchase">>
          [] c = "purchase_value" -> <<"purchase value", "purchase revenue", "revenue">>
          [] c = "adds_to_cart"   -> <<"adds to cart", "atc">>
          [] c = "ctr_7d"         -> <<"ctr 7d", "ctr last 7">>
          [] c = "ctr_prev7"      -> <<"ctr prev7", "ctr previous 7">>
          [] c = "status"         -> <<"status">>]

(***************************************************************************)
(* column_identifier.py                                                     *)
(***************************************************************************)
SeqRange(q) == {q[i] : i \in DOMAIN q}

\* the headers, hint keys and hint values the resolver runs draw from
HeaderPool == {"Spend", "cost", "Spend USD", "S pend", "CTR %", "CTR 7d",
               "Ad-Set", "%", ""}

HintKeys == {"spend", "ctr", "budget"}

HintValues == {"Spend", "spend usd", "SPENDUSD", "ctr rate", "zzz", "%", ""}

\* _normalize is a pure function of its argument: its values on the strings the
\* runs use are tabulated once, and it is computed step by step elsewhere
VocabularyStrings ==
    UNION {SeqRange(CANONICAL_COLUMNS[c]) \cup {c} : c \in CanonicalNames}

TabulatedStrings ==
    LET raw == HeaderPool \cup HintValues \cup VocabularyStrings
    IN  raw \cup {NormalizeSteps(x) : x \in raw}

NormalizeTable == [x \in TabulatedStrings |-> NormalizeSteps(x)]

_normalize(label) ==
    IF label \in TabulatedStrings THEN NormalizeTable[label] ELSE NormalizeSteps(label)

RemoveSpacesTable == [x \in TabulatedStrings |-> RemoveSpacesSteps(x)]

RemoveSpaces(s) ==
    IF s \in TabulatedStrings THEN RemoveSpacesTable[s] ELSE RemoveSpacesSteps(s)

\* the keys of {name: _normalize(name) for name in columns}: first occurrences,
\* in the order supplied
RECURSIVE DictKeys(_, _)
DictKeys(cols, seen) ==
    IF cols = <<>> THEN <<>>
    ELSE IF Head(cols) \in seen THEN DictKeys(Tail(cols), seen)
    ELSE <<Head(cols)>> \o DictKeys(Tail(cols), seen \cup {Head(cols)})

NormalizedColumns(cols) == DictKeys(cols, {})

\* first loop of _find_best_match: equality with a target, then equality after
\* removing spaces, tested header by header
RECURSIVE FirstEqual(_, _)
FirstEqual(names, targets) ==
    IF names = <<>> THEN NoneV
    ELSE LET Test(normalized) ==
                 IF normalized \in targets THEN Str(Head(names))
                 ELSE IF RemoveSpaces(normalized) \in {RemoveSpaces(v) : v \in targets}
                      THEN Str(Head(names))
                 ELSE FirstEqual(Tail(names), targets)
         IN  Test(_normalize(Head(names)))

\* second loop of _find_best_match: key.split()[0] is evaluated inside the loop
\* body, so it raises only when there is a header to test
RECURSIVE FirstPrefix(_, _)
FirstPrefix(names, key) ==
    IF names = <<>> THEN NoneV
    ELSE LET Test(tok) ==
                 IF tok.kind = "raise" THEN tok
                 ELSE IF StartsWith(_normalize(Head(names)), _normalize(tok.val))
                      THEN Str(Head(names))
                 ELSE FirstPrefix(Tail(names), key)
         IN  Test(SplitFirst(key))

\* _find_best_match without its second loop
FindBestMatchNoPrefix(key, names, fallback_candidates) ==
    LET targets == IF fallback_candidates # <<>>
                   THEN {_normalize(x) : x \in SeqRange(fallback_candidates)}
                   ELSE {_normalize(key)}
    IN  FirstEqual(names, targets)

_find_best_match(key, names, fallback_candidates) ==
    LET targets == IF fallback_candidates # <<>>
                   THEN {_normalize(x) : x \in SeqRange(fallback_candidates)}
                   ELSE {_normalize(key)}
        OrPrefix(hit) == IF hit.kind = "str" THEN hit ELSE FirstPrefix(names, key)
    IN  OrPrefix(FirstEqual(names, targets))

\* the synonym loop taking the last matching header
RECURSIVE SynonymLoopLast(_, _)
SynonymLoopLast(names, candidates) ==
    IF names = <<>> THEN NoneV
    ELSE LET Test(normalized, rest) ==
                 IF rest.kind = "str" THEN rest
                 ELSE IF normalized \in SeqRange(candidates) THEN Str(Head(names))
                 ELSE IF RemoveSpaces(normalized)
                            \in {RemoveSpaces(x) : x \in SeqRange(candidates)}
                      THEN Str(Head(names))
                 ELSE NoneV
         IN  Test(_normalize(Head(names)), SynonymLoopLast(Tail(names), candidates))

\* lines 46-52: the synonym loop over the headers, on the raw candidate list
RECURSIVE SynonymLoop(_, _)
SynonymLoop(names, candidates) ==
    IF names = <<>> THEN NoneV
    ELSE LET Test(normalized) ==
                 IF normalized \in SeqRange(candidates) THEN Str(Head(names))
                 ELSE IF RemoveSpaces(normalized)
                            \in {RemoveSpaces(x) : x \in SeqRange(candidates)}
                      THEN Str(Head(names))
                 ELSE SynonymLoop(Tail(names), candidates)
         IN  Test(_normalize(Head(names)))

\* a hint loop that stores the hinted name without looking for it among the
\* headers
ApplyHintUnchecked(cts, canonical, hinted_column, names) ==
    [raised |-> NoneV, map |-> [cts EXCEPT ![canonical] = Str(hinted_column)]]

\* lines 31-39: one item of the hint loop; cts is canonical_to_source so far
ApplyHint(cts, canonical, hinted_column, names) ==
    IF hinted_column \in SeqRange(names)
    THEN [raised |-> NoneV, map |-> [cts EXCEPT ![canonical] = Str(hinted_column)]]
    ELSE LET Assign(target) ==
                 IF target.kind = "raise" THEN [raised |-> target, map |-> cts]
                 ELSE IF Truthy(target)
                      THEN [raised |-> NoneV, map |-> [cts EXCEPT ![canonical] = target]]
                 ELSE [raised |-> NoneV, map |-> cts]
         IN  Assign(_find_best_match(_normalize(hinted_column), names, <<>>))

\* lines 25 and 31-39: the hint loop over the dict items, keys outside the
\* vocabulary filtered out; an exception leaves the loop
RECURSIVE HintLoop(_, _, _)
HintLoop(items, cts, names) ==
    IF items = <<>> THEN [raised |-> NoneV, map |-> cts]
    ELSE IF Head(items)[1] \notin CanonicalNames THEN HintLoop(Tail(items), cts, names)
    ELSE LET Continue(r) ==
                 IF r.raised.kind = "raise" THEN r
                 ELSE HintLoop(Tail(items), r.map, names)
         IN  Continue(ApplyHint(cts, Head(items)[1], Head(items)[2], names))

\* lines 42-61: the auto-match of one canonical metric
AutoMatch(canonical, current, names) ==
    IF Truthy(current) THEN current
    ELSE LET OrCurrent(target) == IF Truthy(target) THEN target ELSE current
             Match(candidates, syn) ==
                 IF Truthy(syn) THEN syn
                 ELSE OrCurrent(_find_best_match(canonical, names, candidates))
             Over(candidates) == Match(candidates, SynonymLoop(names, candidates))
         IN  Over(CANONICAL_COLUMNS[canonical] \o <<canonical>>)

\* SemanticColumnIdentifier.__call__
SemanticColumnIdentifier(cols, hintItems) ==
    LET start == [c \in CanonicalNames |-> NoneV]
        Matched(names, hinted) ==
            IF hinted.raised.kind = "raise" THEN hinted
            ELSE [raised |-> NoneV,
                  map |-> [c \in CanonicalNames |-> AutoMatch(c, hinted.map[c], names)]]
        Hinted(names) == Matched(names, HintLoop(hintItems, start, names))
    IN  Hinted(NormalizedColumns(cols))

(***************************************************************************)
(* Resolver runs: one call of SemanticColumnIdentifier on a header sequence *)
(* and a hints dict drawn from the pools below.                             *)
(***************************************************************************)
RECURSIVE SeqsUpTo(_, _)
SeqsUpTo(S, n) ==
    IF n = 0 THEN {<<>>}
    ELSE LET shorter == SeqsUpTo(S, n - 1)
         IN  shorter \cup {Append(q, x) : q \in shorter, x \in S}

HeaderSeqs == SeqsUpTo(HeaderPool, MaxHeaders)

\* dict items: keys are distinct
HintDicts ==
    {q \in SeqsUpTo(HintKeys \X HintValues, MaxHints) :
        \A i, j \in DOMAIN q : i # j => q[i][1] # q[j][1]}

NoMapping == [raised |-> NoneV, map |-> [c \in CanonicalNames |-> NoneV]]

ResolverIdle ==
    /\ columns = <<>>
    /\ hints = <<>>
    /\ mapping = NoMapping
    /\ rpc = "idle"

ResolverStart ==
    /\ columns \in HeaderSeqs
    /\ hints \in HintDicts
    /\ mapping = NoMapping
    /\ rpc = "call"

\* column_identifier(columns, hints=hints)
Identify ==
    /\ rpc = "call"
    /\ mapping' = SemanticColumnIdentifier(columns, hints)
    /\ rpc' = "done"
    /\ UNCHANGED <<columns, hints>>

(***************************************************************************)
(* Properties of the column resolver, stated on the inputs and the result   *)
(* of a finished call.                                                      *)
(***************************************************************************)
ResolverDone == rpc = "done"
ResolverRaised == mapping.raised.kind = "raise"

HintedKeys == {hints[i][1] : i \in DOMAIN hints}
HintFor(c) == hints[CHOOSE i \in DOMAIN hints : hints[i][1] = c][2]

\* the first header, in the order supplied, that satisfies P
FirstHeader(cols, P(_)) ==
    IF \E i \in DOMAIN cols : P(cols[i])
    THEN Str(cols[CHOOSE i \in DOMAIN cols :
                    P(cols[i]) /\ \A j \in 1..(i - 1) : ~P(cols[j])])
    ELSE NoneV

\* normalized names a header may equal for canonical metric c
SynonymForms(c) == {_normalize(x) : x \in SeqRange(CANONICAL_COLUMNS[c]) \cup {c}}

MatchesSynonym(c, h) ==
    \/ _normalize(h) \in SynonymForms(c)
    \/ RemoveSpaces(_normalize(h)) \in {RemoveSpaces(x) : x \in SynonymForms(c)}

MatchesCanonicalPrefix(c, h) == StartsWith(_normalize(h), _normalize(c))

\* steps 3-5: what is picked for c when no hint applies
AutoPick(c, cols) ==
    IF \E i \in DOMAIN cols : MatchesSynonym(c, cols[i])
    THEN FirstHeader(cols, LAMBDA h : MatchesSynonym(c, h))
    ELSE FirstHeader(cols, LAMBDA h : MatchesCanonicalPrefix(c, h))

HintVerbatim(c) == c \in HintedKeys /\ HintFor(c) \in SeqRange(columns)

HintNormalizedEqual(c, h) == _normalize(h) = _normalize(HintFor(c))

HintRelaxedEqual(c, h) ==
    \/ HintNormalizedEqual(c, h)
    \/ RemoveSpaces(_normalize(h)) = RemoveSpaces(_normalize(HintFor(c)))

HintPrefix(c, h) ==
    /\ _normalize(HintFor(c)) # ""
    /\ StartsWith(_normalize(h), TakeToken(_normalize(HintFor(c))))

\* the pick as claim C1 words it: hints count only verbatim or by normalized equality
ClaimedPick(c) ==
    IF HintVerbatim(c) THEN Str(HintFor(c))
    ELSE IF c \in HintedKeys /\ \E i \in DOMAIN columns : HintNormalizedEqual(c, columns[i])
         THEN FirstHeader(columns, LAMBDA h : HintNormalizedEqual(c, h))
    ELSE AutoPick(c, columns)

\* C1 as claimed: every canonical metric is resolved by the five-step priority
\* order in which a hint counts only when it names a header verbatim or by
\* normalized equality; any other hint leaves the pick of steps 3-5 unchanged.
C1_ClaimedPriority ==
    (ResolverDone /\ ~ResolverRaised) =>
        \A c \in CanonicalNames : mapping.map[c] = ClaimedPick(c)

\* a hint on c makes the call raise: it is no header verbatim, no header's
\* normalized form is empty like the hint's, and there is a header to test
HintRaises(c) ==
    /\ c \in HintedKeys \cap CanonicalNames
    /\ HintFor(c) \notin SeqRange(columns)
    /\ _normalize(HintFor(c)) = ""
    /\ columns # <<>>
    /\ \A i \in DOMAIN columns : _normalize(columns[i]) # ""

\* the pick of the hint step: a header, or None when the hint decides nothing
HintPick(c) ==
    IF c \notin HintedKeys THEN NoneV
    ELSE IF HintVerbatim(c) THEN Str(HintFor(c))
    ELSE IF \E i \in DOMAIN columns : HintRelaxedEqual(c, columns[i])
         THEN FirstHeader(columns, LAMBDA h : HintRelaxedEqual(c, h))
    ELSE FirstHeader(columns, LAMBDA h : HintPrefix(c, h))

AmendedPick(c) ==
    IF Truthy(HintPick(c)) THEN HintPick(c)
    ELSE IF Truthy(AutoPick(c, columns)) THEN AutoPick(c, columns)
    ELSE IF HintVerbatim(c) THEN Str(HintFor(c))
    ELSE NoneV

\* C1 as amended: the relaxed hint match also accepts equality after stripping
\* spaces and then a header whose normalized form starts with the first token of
\* the normalized hint; an empty-string header picked by the hint step is passed
\* over in favour of steps 3-4; the call raises exactly when a hint with an empty
\* normalized form reaches the prefix test; otherwise steps 3-5 decide.
C1_AmendedPriority ==
    ResolverDone =>
        /\ ResolverRaised <=> \E c \in CanonicalNames : HintRaises(c)
        /\ ~ResolverRaised => \A c \in CanonicalNames : mapping.map[c] = AmendedPick(c)

\* C1 witness: a hint that is no header verbatim or by normalized equality
\* decided the pick through its first token, against what steps 3-5 would pick
C1_Witness ==
    /\ ResolverDone /\ ~ResolverRaised
    /\ \E c \in HintedKeys \cap CanonicalNames :
          /\ ~HintVerbatim(c)
          /\ \A i \in DOMAIN columns : ~HintRelaxedEqual(c, columns[i])
          /\ Truthy(mapping.map[c])
          /\ Truthy(AutoPick(c, columns))
          /\ mapping.map[c] # AutoPick(c, columns)

\* C2: with no hints, a canonical metric with at least one header matching its
\* name or a synonym resolves to the first such header in caller order, and
\* moving the non-matching headers anywhere in the sequence (the matching ones
\* keeping their relative order) leaves that result unchanged.
IndexPermutations(n) == {f \in [1..n -> 1..n] : \A i, j \in 1..n : i # j => f[i] # f[j]}

Permuted(cols, f) == [i \in DOMAIN cols |-> cols[f[i]]]

KeepsMatchingOrder(c, cols, f) ==
    \A i, j \in DOMAIN cols :
        (i < j /\ MatchesSynonym(c, cols[f[i]]) /\ MatchesSynonym(c, cols[f[j]]))
            => f[i] < f[j]

C2_FirstSynonymWins ==
    (ResolverDone /\ hints = <<>>) =>
        \A c \in CanonicalNames :
            (\E i \in DOMAIN columns : MatchesSynonym(c, columns[i])) =>
                /\ ~ResolverRaised
                /\ mapping.map[c] = FirstHeader(columns, LAMBDA h : MatchesSynonym(c, h))
                /\ \A f \in IndexPermutations(Len(columns)) :
                      KeepsMatchingOrder(c, columns, f) =>
                          SemanticColumnIdentifier(Permuted(columns, f), <<>>).map[c]
                              = mapping.map[c]

\* C2 witness: two different headers match the metric, a non-matching header
\* stands before them, and the first matching one was picked
C2_Witness ==
    /\ ResolverDone /\ hints = <<>> /\ Len(columns) = 3
    /\ ~MatchesSynonym("spend", columns[1])
    /\ MatchesSynonym("spend", columns[2])
    /\ MatchesSynonym("spend", columns[3])
    /\ columns[2] # columns[3]
    /\ mapping.map["spend"] = Str(columns[2])

\* C3 as claimed: the resolver never raises, whatever the headers and hints
\* (hints matching nothing or with an empty normalized form included).
C3_NeverRaises == ResolverDone => ~ResolverRaised

\* the hint items whose key is a canonical metric
InVocabulary(item) == item[1] \in CanonicalNames

\* C14: every ColumnMapping the resolver returns has exactly the sixteen
\* canonical metric names as keys, hint keys outside the vocabulary change
\* nothing, and each canonical metric is either unresolved or mapped to one
\* header that is a member of the supplied header sequence.
C14_MappingShape ==
    (ResolverDone /\ ~ResolverRaised) =>
        /\ DOMAIN mapping.map = CanonicalNames
        /\ Cardinality(DOMAIN mapping.map) = 16
        /\ mapping = SemanticColumnIdentifier(columns, SelectSeq(hints, InVocabulary))
        /\ \A c \in CanonicalNames :
               \/ mapping.map[c] = NoneV
               \/ /\ mapping.map[c].kind = "str"
                  /\ mapping.map[c].val \in SeqRange(columns)

\* a returned mapping built under a hint whose key is outside the vocabulary
\* and whose value names a header: the key is dropped, spend resolves by
\* itself and some metric stays unresolved
C14_Witness ==
    /\ ResolverDone /\ ~ResolverRaised
    /\ "budget" \in HintedKeys
    /\ HintFor("budget") \in SeqRange(columns)
    /\ mapping.map["spend"].kind = "str"
    /\ mapping.map["ctr"] = NoneV

(***************************************************************************)
(* Python scalars of the metric stage.  A float is finite (an exact         *)
(* rational n/d, d > 0, in lowest terms), nan, inf or -inf; rounding and    *)
(* overflow of finite arithmetic are not represented.                       *)
(***************************************************************************)
PyNone == [t |-> "none", k |-> "", n |-> 0, d |-> 1, s |-> ""]
PyInt(i) == [t |-> "int", k |-> "", n |-> i, d |-> 1, s |-> ""]
PyStr(x) == [t |-> "str", k |-> "", n |-> 0, d |-> 1, s |-> x]
NaN == [t |-> "float", k |-> "nan", n |-> 0, d |-> 1, s |-> ""]
PosInf == [t |-> "float", k |-> "inf", n |-> 0, d |-> 1, s |-> ""]
NegInf == [t |-> "float", k |-> "-inf", n |-> 0, d |-> 1, s |-> ""]

Abs(i) == IF i < 0 THEN -i ELSE i

RECURSIVE GCD(_, _)
GCD(a, b) == IF b = 0 THEN a ELSE GCD(b, a % b)

\* the finite float n/d
Fin(n, d) ==
    LET Over(sn, sd, g) ==
            [t |-> "float", k |-> "fin", n |-> sn \div g, d |-> sd \div g, s |-> ""]
        Lowest(sn, sd) == Over(sn, sd, GCD(Abs(sn), sd))
    IN  Lowest(IF d < 0 THEN -n ELSE n, Abs(d))

IsFinite(x) == x.t = "float" /\ x.k = "fin"

\* arithmetic and comparison of floats; every comparison with nan is False
FAdd(a, b) == Fin(a.n * b.d + b.n * a.d, a.d * b.d)
FSub(a, b) == Fin(a.n * b.d - b.n * a.d, a.d * b.d)
FDiv(a, b) == Fin(a.n * b.d, a.d * b.n)
FDivInt(a, i) == Fin(a.n, a.d * i)

FLess(a, b) ==
    CASE a.k = "nan" \/ b.k = "nan" -> FALSE
      [] a.k = "-inf" -> b.k # "-inf"
      [] a.k = "inf" -> FALSE
      [] b.k = "inf" -> TRUE
      [] b.k = "-inf" -> FALSE
      [] OTHER -> a.n * b.d < b.n * a.d

FEq(a, b) ==
    CASE a.k = "nan" \/ b.k = "nan" -> FALSE
      [] a.k = "fin" /\ b.k = "fin" -> a.n * b.d = b.n * a.d
      [] OTHER -> a.k = b.k

FLessEq(a, b) == FLess(a, b) \/ FEq(a, b)
FGreater(a, b) == FLess(b, a)
FGreaterEq(a, b) == FLessEq(b, a)

\* bool(x) of a float or None: None and 0.0 are falsy, nan and inf are truthy
FloatTruthy(x) == x.t = "float" /\ ~(x.k = "fin" /\ x.n = 0)

(***************************************************************************)
(* float(str): optional sign, then inf / infinity / nan in any case, or     *)
(* decimal digits with at most one point; surrounding whitespace allowed.   *)
(* Exponents and digit-group underscores are outside the strings explored.  *)
(***************************************************************************)
Digits == {"0","1","2","3","4","5","6","7","8","9"}

DigitValue(c) ==
    CASE c = "0" -> 0 [] c = "1" -> 1 [] c = "2" -> 2 [] c = "3" -> 3 [] c = "4" -> 4
      [] c = "5" -> 5 [] c = "6" -> 6 [] c = "7" -> 7 [] c = "8" -> 8 [] c = "9" -> 9

\* value.replace("%", "")
RECURSIVE RemovePercent(_)
RemovePercent(x) ==
    IF x = "" THEN ""
    ELSE IF Head(x) = "%" THEN RemovePercent(Tail(x))
    ELSE Head(x) \o RemovePercent(Tail(x))

\* digits and point of an unsigned decimal: [ok, n, d, digits], d = 10^(digits after the point)
RECURSIVE ScanDecimal(_, _, _, _, _)
ScanDecimal(x, n, d, seenPoint, count) ==
    IF x = "" THEN [ok |-> count > 0, n |-> n, d |-> d]
    ELSE IF Head(x) \in Digits
         THEN ScanDecimal(Tail(x), 10 * n + DigitValue(Head(x)),
                          IF seenPoint THEN 10 * d ELSE d, seenPoint, count + 1)
    ELSE IF Head(x) = "." /\ ~seenPoint THEN ScanDecimal(Tail(x), n, d, TRUE, count)
    ELSE [ok |-> FALSE, n |-> 0, d |-> 1]

\* float(x) for a str x; nan stands for both a parsed nan and, in _to_float,
\* the ValueError branch, so the parse reports failure separately
ParseFloat(x) ==
    LET Value(neg, mag, dec) ==
            IF mag \in {"inf", "infinity"}
            THEN [ok |-> TRUE, val |-> IF neg THEN NegInf ELSE PosInf]
            ELSE IF mag = "nan" THEN [ok |-> TRUE, val |-> NaN]
            ELSE IF dec.ok
                 THEN [ok |-> TRUE, val |-> Fin(IF neg THEN -dec.n ELSE dec.n, dec.d)]
            ELSE [ok |-> FALSE, val |-> NaN]
        Magnitude(neg, mag) == Value(neg, mag, ScanDecimal(mag, 0, 1, FALSE, 0))
        Signed(body) ==
            Magnitude(body # "" /\ Head(body) = "-",
                      Lower(IF body # "" /\ Head(body) \in {"+", "-"}
                            THEN Tail(body) ELSE body))
    IN  Signed(Strip(x))

(***************************************************************************)
(* metrics.py                                                               *)
(***************************************************************************)
\* MetricCalculator._to_float
_to_float(value) ==
    IF value.t \in {"int", "bool"} THEN Fin(value.n, 1)
    ELSE IF value.t = "float" THEN value
    ELSE IF value.t = "str"
         THEN LET OrNaN(r) == IF r.ok THEN r.val ELSE NaN
              IN  OrNaN(ParseFloat(RemovePercent(value.s)))
    ELSE NaN

\* MetricCalculator._is_valid_number
_is_valid_number(value) ==
    IF value.t = "none" THEN FALSE
    ELSE IF value.t \in {"int", "bool"} THEN TRUE
    ELSE IF value.t = "float" THEN value.k = "fin"
    ELSE LET Finite(parsed) == parsed.ok /\ parsed.val.k = "fin"
         IN  Finite(ParseFloat(value.s))

\* float(value) of a value _is_valid_number accepted
ToFin(value) ==
    IF value.t = "float" THEN value
    ELSE IF value.t = "str" THEN ParseFloat(value.s).val
    ELSE Fin(value.n, 1)

\* MetricCalculator._numeric_fields
_numeric_fields ==
    {"spend", "impressions", "clicks", "ctr", "frequency", "roas", "purchases",
     "purchase_value", "adds_to_cart", "ctr_7d", "ctr_prev7"}

\* dict.get(key): None for a missing key
Get(dict, key) == IF key \in DOMAIN dict THEN dict[key] ELSE PyNone

\* dict[key] = value
Put(dict, key, value) == (key :> value) @@ dict

\* ColumnMapping.available_metrics: the metrics whose header is truthy
available_metrics(cm) == {c \in CanonicalNames : Truthy(cm[c])}

\* the ctr fallback dividing without testing the denominator: a zero
\* denominator yields inf where ZeroDivisionError is not modelled
ComputeCtrNoZeroTest(metrics) ==
    LET value == Get(metrics, "ctr")
        clicks == Get(metrics, "clicks")
        impressions == Get(metrics, "impressions")
    IN  IF _is_valid_number(value) THEN ToFin(value)
        ELSE IF ~_is_valid_number(clicks) \/ ~_is_valid_number(impressions) THEN NaN
        ELSE IF ToFin(impressions).n = 0 THEN PosInf
        ELSE FDiv(ToFin(clicks), ToFin(impressions))

\* the ctr computation ignoring a supplied ctr column
ComputeCtrAlwaysFallback(metrics) ==
    LET clicks == Get(metrics, "clicks")
        impressions == Get(metrics, "impressions")
    IN  IF ~_is_valid_number(clicks) \/ ~_is_valid_number(impressions) THEN NaN
        ELSE IF ToFin(impressions).n = 0 THEN NaN
        ELSE FDiv(ToFin(clicks), ToFin(impressions))

\* MetricCalculator._compute_ctr
_compute_ctr(metrics) ==
    LET value == Get(metrics, "ctr")
        clicks == Get(metrics, "clicks")
        impressions == Get(metrics, "impressions")
    IN  IF _is_valid_number(value) THEN ToFin(value)
        ELSE IF ~_is_valid_number(clicks) \/ ~_is_valid_number(impressions) THEN NaN
        ELSE IF ToFin(impressions).n = 0 THEN NaN
        ELSE FDiv(ToFin(clicks), ToFin(impressions))

\* MetricCalculator._compute_ratio
_compute_ratio(numerator, denominator) ==
    IF ~_is_valid_number(numerator) \/ ~_is_valid_number(denominator) THEN NaN
    ELSE IF ToFin(denominator).n = 0 THEN NaN
    ELSE FDiv(ToFin(numerator), ToFin(denominator))

\* MetricCalculator._compute_ctr_delta
_compute_ctr_delta(metrics) ==
    LET first == Get(metrics, "ctr_7d")
        Delta(current, previous) ==
            IF ~_is_valid_number(current) \/ ~_is_valid_number(previous) THEN NaN
            ELSE IF ToFin(previous).n = 0 THEN NaN
            ELSE FDiv(FSub(ToFin(current), ToFin(previous)), ToFin(previous))
    IN  Delta(IF ~_is_valid_number(first) THEN Get(metrics, "ctr") ELSE first,
              Get(metrics, "ctr_prev7"))

\* lines 37-46: the mapped metrics of one record
MappedMetrics(record, cm) ==
    [c \in available_metrics(cm) |->
        LET value == Get(record, cm[c].val)
        IN  IF c \in _numeric_fields THEN _to_float(value) ELSE value]

\* a derived row whose ctr_delta is computed from the mapped metrics alone,
\* before the row's ctr is stored
DeriveRowDeltaFromMapped(record, cm) ==
    LET WithRatio(m1, delta) ==
            Put(Put(m1, "atc_to_purchase",
                    _compute_ratio(Get(m1, "purchases"), Get(m1, "adds_to_cart"))),
                "ctr_delta", delta)
        WithCtr(m0) == WithRatio(Put(m0, "ctr", _compute_ctr(m0)), _compute_ctr_delta(m0))
    IN  WithCtr(MappedMetrics(record, cm))

\* lines 36-53: the derived row of one record
DeriveRow(record, cm) ==
    LET WithCtrDelta(m2) == Put(m2, "ctr_delta", _compute_ctr_delta(m2))
        WithRatio(m1) ==
            WithCtrDelta(Put(m1, "atc_to_purchase",
                             _compute_ratio(Get(m1, "purchases"), Get(m1, "adds_to_cart"))))
        WithCtr(m0) == WithRatio(Put(m0, "ctr", _compute_ctr(m0)))
    IN  WithCtr(MappedMetrics(record, cm))

\* MetricCalculator._derive_row_metrics
_derive_row_metrics(recs, cm) == [i \in DOMAIN recs |-> DeriveRow(recs[i], cm)]

TotalFields == <<"spend", "impressions", "clicks", "purchases", "purchase_value",
                 "adds_to_cart">>

AverageFields == <<"ctr", "frequency", "roas", "atc_to_purchase", "ctr_7d",
                   "ctr_prev7", "ctr_delta">>

\* lines 91-101: the totals of one row added to sums; the fields of a row
\* write distinct keys, so the loop over them is one update of the dict
AddTotals(fields, row, sums) ==
    LET valid == {f \in SeqRange(fields) : _is_valid_number(Get(row, f))}
        FieldOf(key) == CHOOSE f \in valid : "total_" \o f = key
    IN  [key \in DOMAIN sums \cup {"total_" \o f : f \in valid} |->
            IF \E f \in valid : "total_" \o f = key
            THEN FAdd(IF key \in DOMAIN sums THEN sums[key] ELSE Fin(0, 1),
                      ToFin(Get(row, FieldOf(key))))
            ELSE sums[key]]

\* lines 103-116: the averaged fields of one row added to sums and counts
AddAverages(fields, row, acc) ==
    LET valid == {f \in SeqRange(fields) : _is_valid_number(Get(row, f))}
        written == {"avg_" \o f : f \in valid}
        FieldOf(key) == CHOOSE f \in valid : "avg_" \o f = key
    IN  [sums |->
            [key \in DOMAIN acc.sums \cup written |->
                IF key \in written
                THEN FAdd(IF key \in DOMAIN acc.sums THEN acc.sums[key] ELSE Fin(0, 1),
                          ToFin(Get(row, FieldOf(key))))
                ELSE acc.sums[key]],
         counts |->
            [key \in DOMAIN acc.counts \cup written |->
                IF key \in written
                THEN (IF key \in DOMAIN acc.counts THEN acc.counts[key] ELSE 0) + 1
                ELSE acc.counts[key]]]

\* lines 90-116: the loop over the rows
RECURSIVE AccumulateRows(_, _)
AccumulateRows(rows, acc) ==
    IF rows = <<>> THEN acc
    ELSE LET withTotals == AddTotals(TotalFields, Head(rows), acc.sums)
         IN  AccumulateRows(Tail(rows),
                 AddAverages(AverageFields, Head(rows),
                             [sums |-> withTotals, counts |-> acc.counts]))

EmptyDict == [key \in {} |-> PyNone]

\* _aggregate leaving the averaged sums undivided
AggregateWithoutDivision(rows) ==
    AccumulateRows(rows, [sums |-> EmptyDict, counts |-> EmptyDict]).sums

\* MetricCalculator._aggregate
_aggregate(rows) ==
    LET Averaged(acc) ==
            [key \in DOMAIN acc.sums |->
                IF key \in DOMAIN acc.counts /\ acc.counts[key] # 0
                THEN FDivInt(acc.sums[key], acc.counts[key])
                ELSE acc.sums[key]]
    IN  Averaged(AccumulateRows(rows, [sums |-> EmptyDict, counts |-> EmptyDict]))

\* MetricCalculator.__call__
MetricCalculator(recs, cm) ==
    LET Summary(per_row_metrics) ==
            [column_mapping |-> cm,
             per_row |-> per_row_metrics,
             aggregates |-> _aggregate(per_row_metrics)]
    IN  Summary(_derive_row_metrics(recs, cm))

(***************************************************************************)
(* Metric runs: one call of MetricCalculator on a mapping and raw records.  *)
(* A run maps some of the metric fields, each to the header of its first    *)
(* synonym, and every record gives each mapped header a value of RawPool;   *)
(* rows times mapped columns is at most MaxCells.                           *)
(***************************************************************************)
MetricFields == _numeric_fields \cup {"campaign_name"}

HeaderOf(c) == CANONICAL_COLUMNS[c][1]

RawPool == {PyNone, PyInt(0), PyInt(2), PyStr("5%"), PyStr("n/a"), PosInf}

MappingOf(mcols) ==
    [c \in CanonicalNames |-> IF c \in mcols THEN Str(HeaderOf(c)) ELSE NoneV]

RecordsOver(mcols, rows) ==
    [1..rows -> [{HeaderOf(c) : c \in mcols} -> RawPool]]

NoSummary == [column_mapping |-> MappingOf({}), per_row |-> <<>>, aggregates |-> EmptyDict]

MetricIdle ==
    /\ colmap = MappingOf({})
    /\ records = <<>>
    /\ summary = NoSummary
    /\ mpc = "idle"

MetricStart ==
    /\ \E mcols \in SUBSET MetricFields, rows \in 0..MaxCells :
          /\ Cardinality(mcols) * rows <= MaxCells
          /\ Cardinality(mcols) <= MaxCells
          /\ colmap = MappingOf(mcols)
          /\ records \in RecordsOver(mcols, rows)
    /\ summary = NoSummary
    /\ mpc = "call"

\* metric_calculator(records, mapping)
Calculate ==
    /\ mpc = "call"
    /\ summary' = MetricCalculator(records, colmap)
    /\ mpc' = "done"
    /\ UNCHANGED <<colmap, records>>

(***************************************************************************)
(* insight_rules.py.  A rule is named by its code; the built-in rules read  *)
(* the summary, a caller-supplied rule is one of two stand-ins whose        *)
(* predicate is constantly true or constantly false.                        *)
(***************************************************************************)
RoasLow == Fin(1, 1)
RoasHigh == Fin(2, 1)
CtrHealthy == Fin(15, 1000)
AtcWeak == Fin(2, 10)
FrequencyHigh == Fin(35, 10)
CtrDrop == Fin(-1, 10)
SpendFloor == Fin(50, 1)
Zero == Fin(0, 1)

\* _RoasOneToTwoRule.applies with strict bounds
RoasStrictApplies(summ) ==
    LET roas == Get(summ.aggregates, "avg_roas")
    IN  roas.t # "none" /\ FLess(RoasLow, roas) /\ FLess(roas, RoasHigh)

\* _RoasOneToTwoRule.applies
RoasOneToTwoApplies(summ) ==
    LET roas == Get(summ.aggregates, "avg_roas")
    IN  roas.t # "none" /\ FLessEq(RoasLow, roas) /\ FLessEq(roas, RoasHigh)

\* _HealthyCtrWeakConversionRule.applies
HealthyCtrWeakConversionApplies(summ) ==
    LET ctr == Get(summ.aggregates, "avg_ctr")
        atc_purchase == Get(summ.aggregates, "avg_atc_to_purchase")
    IN  /\ FloatTruthy(ctr)
        /\ FGreaterEq(ctr, CtrHealthy)
        /\ (atc_purchase.t = "none" \/ FLess(atc_purchase, AtcWeak))

\* _HighFrequencyFatigueRule.applies
HighFrequencyFatigueApplies(summ) ==
    LET frequency == Get(summ.aggregates, "avg_frequency")
    IN  FloatTruthy(frequency) /\ FGreaterEq(frequency, FrequencyHigh)

\* _CtrDropRule.applies
CtrDropApplies(summ) ==
    LET delta == Get(summ.aggregates, "avg_ctr_delta")
    IN  delta.t # "none" /\ FLess(delta, CtrDrop)

\* the row test shared by _SpendZeroPurchasesRule.applies and build_insight:
\* spend and spend > 50 and (not purchases or purchases == 0)
SpendRowOffends(row) ==
    LET spend == Get(row, "spend")
        purchases == Get(row, "purchases")
    IN  /\ FloatTruthy(spend)
        /\ FGreater(spend, SpendFloor)
        /\ (~FloatTruthy(purchases) \/ FEq(purchases, Zero))

\* _SpendZeroPurchasesRule.applies
SpendZeroPurchasesApplies(summ) ==
    \E i \in DOMAIN summ.per_row : SpendRowOffends(summ.per_row[i])

\* row.get(key, default)
GetOr(dict, key, default) == IF key \in DOMAIN dict THEN dict[key] ELSE default

\* the offenders list of _SpendZeroPurchasesRule.build_insight
RECURSIVE Offenders(_)
Offenders(rows) ==
    IF rows = <<>> THEN <<>>
    ELSE (IF SpendRowOffends(Head(rows))
          THEN <<[spend |-> GetOr(Head(rows), "spend", Zero),
                  purchases |-> GetOr(Head(rows), "purchases", Zero),
                  campaign_name |-> Get(Head(rows), "campaign_name"),
                  ad_name |-> Get(Head(rows), "ad_name")]>>
          ELSE <<>>) \o Offenders(Tail(rows))

BuiltinRules == <<"roas_1_2", "ctr_healthy_low_conversion", "frequency_fatigue",
                  "ctr_drop_vs_prev7", "spend_no_purchases">>

ExtraRulePool == {"extra_always", "extra_never"}

\* rule.applies(ctx)
Applies(code, summ) ==
    CASE code = "roas_1_2" -> RoasOneToTwoApplies(summ)
      [] code = "ctr_healthy_low_conversion" -> HealthyCtrWeakConversionApplies(summ)
      [] code = "frequency_fatigue" -> HighFrequencyFatigueApplies(summ)
      [] code = "ctr_drop_vs_prev7" -> CtrDropApplies(summ)
      [] code = "spend_no_purchases" -> SpendZeroPurchasesApplies(summ)
      [] code = "extra_always" -> TRUE
      [] code = "extra_never" -> FALSE

\* rule.build_insight(ctx): the code, the severity and the evidence
BuildInsight(code, summ) ==
    CASE code = "roas_1_2" ->
            [code |-> code, severity |-> "opportunity", offenders |-> <<>>,
             metrics |-> ("avg_roas" :> GetOr(summ.aggregates, "avg_roas", Zero))]
      [] code = "ctr_healthy_low_conversion" ->
            [code |-> code, severity |-> "warning", offenders |-> <<>>,
             metrics |-> ("avg_ctr" :> GetOr(summ.aggregates, "avg_ctr", Zero))
                         @@ ("avg_atc_to_purchase"
                               :> GetOr(summ.aggregates, "avg_atc_to_purchase", Zero))]
      [] code = "frequency_fatigue" ->
            [code |-> code, severity |-> "warning", offenders |-> <<>>,
             metrics |-> ("avg_frequency" :> GetOr(summ.aggregates, "avg_frequency", Zero))]
      [] code = "ctr_drop_vs_prev7" ->
            [code |-> code, severity |-> "critical", offenders |-> <<>>,
             metrics |-> ("avg_ctr_delta" :> GetOr(summ.aggregates, "avg_ctr_delta", Zero))]
      [] code = "spend_no_purchases" ->
            [code |-> code, severity |-> "critical",
             offenders |-> Offenders(summ.per_row), metrics |-> EmptyDict]
      [] OTHER ->
            [code |-> code, severity |-> "info", offenders |-> <<>>, metrics |-> EmptyDict]

\* RuleBasedInsightAgent.__init__
RuleRegistry(extra_rules) == extra_rules \o BuiltinRules

\* the loop of __call__ leaving at the first rule that fired
RECURSIVE RunRulesFirstOnly(_, _)
RunRulesFirstOnly(registry, summ) ==
    IF registry = <<>> THEN <<>>
    ELSE IF Applies(Head(registry), summ) THEN <<BuildInsight(Head(registry), summ)>>
    ELSE RunRulesFirstOnly(Tail(registry), summ)

\* RuleBasedInsightAgent.__call__
RECURSIVE RunRules(_, _)
RunRules(registry, summ) ==
    IF registry = <<>> THEN <<>>
    ELSE (IF Applies(Head(registry), summ)
          THEN <<BuildInsight(Head(registry), summ)>> ELSE <<>>)
         \o RunRules(Tail(registry), summ)


(***************************************************************************)
(* Rule runs: one call of a RuleBasedInsightAgent built with at most        *)
(* MaxExtraRules caller-supplied rules, on a summary restricted to the keys *)
(* the rules read: five aggregates, each absent or around its threshold,    *)
(* and at most MaxRows rows whose spend and purchases columns are mapped or *)
(* not for the whole dataset.                                               *)
(***************************************************************************)
RuleAggregateKeys ==
    {"avg_roas", "avg_ctr", "avg_atc_to_purchase", "avg_frequency", "avg_ctr_delta"}

AggregatePool(key) ==
    CASE key = "avg_roas" -> {PyNone, Fin(1, 2), Fin(1, 1), Fin(2, 1), Fin(5, 2)}
      [] key = "avg_ctr" -> {PyNone, Fin(0, 1), Fin(1, 100), Fin(15, 1000)}
      [] key = "avg_atc_to_purchase" -> {PyNone, Fin(1, 10), Fin(2, 10)}
      [] key = "avg_frequency" -> {PyNone, Fin(3, 1), Fin(35, 10)}
      [] key = "avg_ctr_delta" -> {PyNone, Fin(-2, 10), Fin(-1, 10)}

\* the dict holding the keys that were given a value
PresentKeys(choice) == [key \in {x \in DOMAIN choice : choice[x] # PyNone} |-> choice[key]]

AggregateChoices ==
    {PresentKeys(choice) :
        choice \in {f \in [RuleAggregateKeys -> UNION {AggregatePool(key) : key \in RuleAggregateKeys}] :
                        \A key \in RuleAggregateKeys : f[key] \in AggregatePool(key)}}

SpendPool == {NaN, Fin(50, 1), Fin(80, 1), PosInf}
PurchasesPool == {NaN, Fin(0, 1), Fin(3, 1)}

\* row i of a dataset whose spend / purchases columns are mapped or not
RuleRow(i, spendMapped, purchasesMapped, spend, purchases) ==
    LET base == ("campaign_name" :> PyStr("Spring Drops")) @@ ("ad_name" :> PyInt(i))
        withSpend == IF spendMapped THEN Put(base, "spend", spend) ELSE base
    IN  IF purchasesMapped THEN Put(withSpend, "purchases", purchases) ELSE withSpend

RuleRowChoices ==
    {[i \in 1..n |-> RuleRow(i, sm, pm, sp[i], pu[i])] :
        <<n, sm, pm, sp, pu>> \in
            {t \in (0..MaxRows) \X BOOLEAN \X BOOLEAN
                   \X [1..MaxRows -> SpendPool] \X [1..MaxRows -> PurchasesPool] :
                /\ \A i \in 1..MaxRows : i > t[1] => (t[4][i] = NaN /\ t[5][i] = NaN)
                /\ ~t[2] => \A i \in 1..MaxRows : t[4][i] = NaN
                /\ ~t[3] => \A i \in 1..MaxRows : t[5][i] = NaN}}

ExtraRuleChoices == SeqsUpTo(ExtraRulePool, MaxExtraRules)

RuleIdle ==
    /\ rules = <<>>
    /\ ctx = NoSummary
    /\ insights = <<>>
    /\ ipc = "idle"

RuleStart ==
    /\ \E extra_rules \in ExtraRuleChoices : rules = RuleRegistry(extra_rules)
    /\ \E aggs \in AggregateChoices, rows \in RuleRowChoices :
          ctx = [column_mapping |-> MappingOf({}), per_row |-> rows, aggregates |-> aggs]
    /\ insights = <<>>
    /\ ipc = "call"

\* insight_agent(summary)
GenerateInsights ==
    /\ ipc = "call"
    /\ insights' = RunRules(rules, ctx)
    /\ ipc' = "done"
    /\ UNCHANGED <<rules, ctx>>


(***************************************************************************)
(* Properties of the metric stage, stated on the raw records, the mapping   *)
(* and the summary of a finished call.                                      *)
(***************************************************************************)
MetricDone == mpc = "done"

\* the coerced value of canonical metric c in record i: None when c is unmapped
Operand(i, c) ==
    IF Truthy(colmap[c]) THEN _to_float(records[i][colmap[c].val]) ELSE PyNone

\* a valid number: present and finite
Valid(x) == x.t = "float" /\ x.k = "fin"
IsZero(x) == Valid(x) /\ x.n = 0
Positive(x) == Valid(x) /\ x.n > 0
Infinite(x) == x.t = "float" /\ x.k \in {"inf", "-inf"}

Derived(i, key) == summary.per_row[i][key]

\* the current value _compute_ctr_delta works on
CurrentCtr(i) == IF Valid(Operand(i, "ctr_7d")) THEN Operand(i, "ctr_7d") ELSE Derived(i, "ctr")

ValidRows(field) ==
    {i \in DOMAIN summary.per_row : Valid(Get(summary.per_row[i], field))}

RECURSIVE SumOver(_, _)
SumOver(rowSet, field) ==
    IF rowSet = {} THEN Fin(0, 1)
    ELSE LET i == CHOOSE j \in rowSet : TRUE
         IN  FAdd(summary.per_row[i][field], SumOver(rowSet \ {i}, field))

\* C9: the summary has total_<f> iff some row holds a valid f, and it is the sum
\* of the valid values; it has avg_<g> iff some row holds a valid g, and it is
\* that sum divided by the number of rows holding a valid g; there is no other
\* key, so invalid rows count for nothing and no count is zero.
C9_TotalsAndAverages ==
    MetricDone =>
        /\ DOMAIN summary.aggregates =
              {"total_" \o f : f \in {x \in SeqRange(TotalFields) : ValidRows(x) # {}}}
              \cup {"avg_" \o g : g \in {x \in SeqRange(AverageFields) : ValidRows(x) # {}}}
        /\ \A f \in SeqRange(TotalFields) :
              ValidRows(f) # {} =>
                  summary.aggregates["total_" \o f] = SumOver(ValidRows(f), f)
        /\ \A g \in SeqRange(AverageFields) :
              ValidRows(g) # {} =>
                  LET avg == summary.aggregates["avg_" \o g]
                      sum == SumOver(ValidRows(g), g)
                  IN  /\ Valid(avg)
                      /\ avg.n * sum.d * Cardinality(ValidRows(g)) = sum.n * avg.d

\* C9 witness: an averaged field valid in two rows with different values and
\* invalid in a third; the average is over the two
C9_Witness ==
    /\ MetricDone
    /\ \E g \in SeqRange(AverageFields) :
          /\ Cardinality(ValidRows(g)) = 2
          /\ Len(summary.per_row) = 3
          /\ \E i, j \in ValidRows(g) : summary.per_row[i][g] # summary.per_row[j][g]
          /\ summary.aggregates["avg_" \o g] = Fin(7, 2)

\* the ctr of row i as the claim describes it: the supplied ctr when valid,
\* else clicks / impressions when both are valid and impressions is not 0
RowCtr(i) ==
    IF Valid(Operand(i, "ctr")) THEN Operand(i, "ctr")
    ELSE IF /\ Valid(Operand(i, "clicks"))
            /\ Valid(Operand(i, "impressions"))
            /\ ~IsZero(Operand(i, "impressions"))
         THEN FDiv(Operand(i, "clicks"), Operand(i, "impressions"))
    ELSE NaN

\* the current value of the claim: ctr_7d when valid, else the row's ctr
ClaimedCurrent(i) ==
    IF Valid(Operand(i, "ctr_7d")) THEN Operand(i, "ctr_7d") ELSE RowCtr(i)

\* C15: for every row, ctr_delta takes as current value ctr_7d when it is
\* valid and otherwise the row's derived ctr (the clicks / impressions
\* fallback included), and is (current - ctr_prev7) / ctr_prev7 when current
\* and ctr_prev7 are both valid and ctr_prev7 is not 0, and nan otherwise.
C15_CtrDelta ==
    MetricDone =>
        \A i \in DOMAIN records :
            /\ Derived(i, "ctr") = RowCtr(i)
            /\ Derived(i, "ctr_delta") =
                  IF /\ Valid(ClaimedCurrent(i))
                     /\ Valid(Operand(i, "ctr_prev7"))
                     /\ ~IsZero(Operand(i, "ctr_prev7"))
                  THEN FDiv(FSub(ClaimedCurrent(i), Operand(i, "ctr_prev7")),
                            Operand(i, "ctr_prev7"))
                  ELSE NaN

\* C15 witness: a row with no valid ctr_7d and no ctr column, whose current
\* value is the clicks / impressions fallback, and a valid non-zero ctr_prev7:
\* ctr_delta came out finite
C15_Witness ==
    /\ MetricDone
    /\ \E i \in DOMAIN records :
          /\ ~Valid(Operand(i, "ctr_7d"))
          /\ ~Valid(Operand(i, "ctr"))
          /\ Positive(Operand(i, "clicks"))
          /\ Positive(Operand(i, "impressions"))
          /\ Positive(Operand(i, "ctr_prev7"))
          /\ Valid(Derived(i, "ctr_delta"))
          /\ Derived(i, "ctr_delta") # Fin(0, 1)

\* a row whose valid ctr_7d is the current value although a ctr is derived
C15_WitnessCtr7d ==
    /\ MetricDone
    /\ \E i \in DOMAIN records :
          /\ Valid(Operand(i, "ctr_7d"))
          /\ Valid(Operand(i, "ctr"))
          /\ Operand(i, "ctr_7d") # Operand(i, "ctr")
          /\ Positive(Operand(i, "ctr_prev7"))
          /\ Derived(i, "ctr_delta")
                = FDiv(FSub(Operand(i, "ctr_7d"), Operand(i, "ctr_prev7")),
                       Operand(i, "ctr_prev7"))

(***************************************************************************)
(* Properties of the rule stage, stated on the summary and the findings of  *)
(* a finished call.                                                         *)
(***************************************************************************)
RulesDone == ipc = "done"

Emitted(code) == \E k \in DOMAIN insights : insights[k].code = code
Present(key) == key \in DOMAIN ctx.aggregates
Agg(key) == ctx.aggregates[key]

\* plain order on valid numbers
Below(a, b) == a.n * b.d < b.n * a.d
AtMost(a, b) == a.n * b.d <= b.n * a.d

\* C4: roas_1_2 is emitted iff avg_roas is present and within [1.0, 2.0];
\* ctr_healthy_low_conversion iff avg_ctr is present and >= 0.015 and
\* avg_atc_to_purchase is absent or < 0.2; frequency_fatigue iff avg_frequency is
\* present and >= 3.5; ctr_drop_vs_prev7 iff avg_ctr_delta is present and < -0.1.
\* A missing key makes its comparison false (the call returned its findings).
C4_AggregateRules ==
    RulesDone =>
        /\ Emitted("roas_1_2") <=>
              (Present("avg_roas") /\ AtMost(Fin(1, 1), Agg("avg_roas"))
                                   /\ AtMost(Agg("avg_roas"), Fin(2, 1)))
        /\ Emitted("ctr_healthy_low_conversion") <=>
              (/\ Present("avg_ctr") /\ AtMost(Fin(15, 1000), Agg("avg_ctr"))
               /\ (~Present("avg_atc_to_purchase")
                      \/ Below(Agg("avg_atc_to_purchase"), Fin(2, 10))))
        /\ Emitted("frequency_fatigue") <=>
              (Present("avg_frequency") /\ AtMost(Fin(35, 10), Agg("avg_frequency")))
        /\ Emitted("ctr_drop_vs_prev7") <=>
              (Present("avg_ctr_delta") /\ Below(Agg("avg_ctr_delta"), Fin(-1, 10)))

\* C4 witness: avg_roas on the upper bound and avg_ctr on its threshold with
\* avg_atc_to_purchase absent both fired, while the absent avg_frequency and
\* avg_ctr_delta fired nothing
C4_Witness ==
    /\ RulesDone
    /\ Present("avg_roas") /\ Agg("avg_roas") = Fin(2, 1) /\ Emitted("roas_1_2")
    /\ Present("avg_ctr") /\ Agg("avg_ctr") = Fin(15, 1000)
    /\ ~Present("avg_atc_to_purchase") /\ Emitted("ctr_healthy_low_conversion")
    /\ ~Present("avg_frequency") /\ ~Emitted("frequency_fatigue")
    /\ ~Present("avg_ctr_delta") /\ ~Emitted("ctr_drop_vs_prev7")

\* a row offends as claim C5 words it: spend > 50, and purchases equal to 0 or
\* absent, where absent is a missing key or a value that is no valid number
ClaimedOffender(row) ==
    /\ "spend" \in DOMAIN row
    /\ FGreater(row["spend"], Fin(50, 1))
    /\ \/ ~Valid(Get(row, "purchases"))
       \/ IsZero(Get(row, "purchases"))

ClaimedOffenderRows == SelectSeq(ctx.per_row, ClaimedOffender)

\* C5 as claimed: spend_no_purchases is emitted iff some row has spend > 50 and
\* purchases absent (unmapped, or mapped with an invalid value) or 0, and its
\* offenders are exactly those rows, in row order.
C5_SpendNoPurchases ==
    RulesDone =>
        /\ Emitted("spend_no_purchases") <=> ClaimedOffenderRows # <<>>
        /\ \A k \in DOMAIN insights :
              insights[k].code = "spend_no_purchases" =>
                  [j \in DOMAIN insights[k].offenders |-> insights[k].offenders[j].ad_name]
                      = [j \in DOMAIN ClaimedOffenderRows |-> ClaimedOffenderRows[j]["ad_name"]]

\* the codes of the registered rules that apply, in registration order, by the
\* predicates of the rule table
TablePredicate(code) ==
    CASE code = "roas_1_2" ->
            Present("avg_roas") /\ AtMost(Fin(1, 1), Agg("avg_roas"))
                                /\ AtMost(Agg("avg_roas"), Fin(2, 1))
      [] code = "ctr_healthy_low_conversion" ->
            /\ Present("avg_ctr") /\ AtMost(Fin(15, 1000), Agg("avg_ctr"))
            /\ (~Present("avg_atc_to_purchase")
                   \/ Below(Agg("avg_atc_to_purchase"), Fin(2, 10)))
      [] code = "frequency_fatigue" ->
            Present("avg_frequency") /\ AtMost(Fin(35, 10), Agg("avg_frequency"))
      [] code = "ctr_drop_vs_prev7" ->
            Present("avg_ctr_delta") /\ Below(Agg("avg_ctr_delta"), Fin(-1, 10))
      [] code = "spend_no_purchases" ->
            \E i \in DOMAIN ctx.per_row : SpendRowOffends(ctx.per_row[i])
      [] code = "extra_always" -> TRUE
      [] code = "extra_never" -> FALSE

Codes(findings) == [k \in DOMAIN findings |-> findings[k].code]

RemoveAt(q, i) == SubSeq(q, 1, i - 1) \o SubSeq(q, i + 1, Len(q))

\* the position in the findings of the finding of rule i, when it applies
FindingIndex(i) == Cardinality({j \in 1..i : TablePredicate(rules[j])})

\* C6: the findings are one per registered rule whose predicate applies, in
\* registration order, none for the others; and without any one rule of the
\* registry (a caller-supplied one included) the agent returns the same findings
\* in the same order, less that rule's own.
C6_RulesIndependent ==
    RulesDone =>
        /\ Codes(insights) = SelectSeq(rules, TablePredicate)
        /\ \A i \in DOMAIN rules :
              Codes(RunRules(RemoveAt(rules, i), ctx))
                  = IF TablePredicate(rules[i])
                    THEN RemoveAt(Codes(insights), FindingIndex(i))
                    ELSE Codes(insights)

\* C6 witness: a caller-supplied rule fired first and three built-in rules
\* fired after it, the last registered among them
C6_Witness ==
    /\ RulesDone
    /\ Len(rules) = 6
    /\ Len(insights) >= 4
    /\ insights[1].code = "extra_always"
    /\ insights[2].code = "roas_1_2"
    /\ insights[Len(insights)].code = "spend_no_purchases"


(***************************************************************************)
(* schemas.py and engine.py: request validation and the four-node graph     *)
(* identify_columns -> calculate_metrics -> generate_insights ->            *)
(* compose_narrative -> END.  A record is the sequence of its <<key, value>>*)
(* items, in key order.                                                     *)
(***************************************************************************)
\* record.keys()
\* the keys of a record taken from the last to the first
KeysReversed(record) == [i \in DOMAIN record |-> record[Len(record) + 1 - i][1]]

\* record.keys(), in the record's key order
Keys(record) == [i \in DOMAIN record |-> record[i][1]]

\* the record as a mapping for record.get
AsDict(record) ==
    [key \in SeqRange(Keys(record)) |->
        record[CHOOSE i \in DOMAIN record : record[i][1] = key][2]]

\* a validator accepting an empty data sequence
EnsureDataAcceptsAll(data) == NoneV

\* InsightRequest._ensure_data: the exception raised, or None
_ensure_data(data) == IF data = <<>> THEN Raise("ValidationError") ELSE NoneV

\* lines 113-116: the initial EngineState of run
InitialState(request) ==
    ("records" :> request.data)
    @@ ("diagnostics" :> ("column_hints" :> request.column_hints))

\* lines 59-62 of _identify_columns: the state built from the identifier's result
IdentifiedState(state, found) ==
    IF found.raised.kind = "raise" THEN [raised |-> found.raised, state |-> state]
    ELSE [raised |-> NoneV,
          state |->
             ("records" :> state["records"])
             @@ ("column_mapping" :> found.map)
             @@ ("diagnostics" :>
                   Put(state["diagnostics"], "column_mapping_confidence",
                       SelectSeq(CanonicalOrder, LAMBDA c : Truthy(found.map[c]))))]

\* InsightEngine._identify_columns: [raised, state]; records[0] raises
\* IndexError on an empty list, and the identifier's exception propagates
_identify_columns(state) ==
    IF state["records"] = <<>> THEN [raised |-> Raise("IndexError"), state |-> state]
    ELSE IdentifiedState(state,
             SemanticColumnIdentifier(Keys(state["records"][1]),
                                      state["diagnostics"]["column_hints"]))

\* lines 66-68 of _calculate_metrics: the state built from the summary
SummarizedState(state, summ) ==
    ("summary" :> summ)
    @@ ("diagnostics" :> Put(state["diagnostics"], "aggregate_metrics", summ.aggregates))
    @@ ("records" :> state["records"])
    @@ ("column_mapping" :> state["column_mapping"])

\* InsightEngine._calculate_metrics
_calculate_metrics(state) ==
    SummarizedState(state,
        MetricCalculator([i \in DOMAIN state["records"] |-> AsDict(state["records"][i])],
                         state["column_mapping"]))

\* _generate_insights leaving insight_count at 0
InsightStateNoCount(state, found) ==
    ("insights" :> found)
    @@ ("summary" :> state["summary"])
    @@ ("column_mapping" :> state["column_mapping"])
    @@ ("diagnostics" :> Put(state["diagnostics"], "insight_count", 0))
    @@ state

\* lines 72-79 of _generate_insights: the state built from the findings; keys
\* the node does not return keep their value in the graph state
InsightState(state, found) ==
    ("insights" :> found)
    @@ ("summary" :> state["summary"])
    @@ ("column_mapping" :> state["column_mapping"])
    @@ ("diagnostics" :> Put(state["diagnostics"], "insight_count", Len(found)))
    @@ state

\* InsightEngine._generate_insights
_generate_insights(state, agentRules) ==
    InsightState(state, RunRules(agentRules, state["summary"]))

\* InsightEngine._build_prompt: one line per finding (its label and action are
\* fixed by the rule code) and the aggregates
_build_prompt(found, diagnostics) ==
    [insight_lines |-> [k \in DOMAIN found |->
                          [rule |-> found[k].code,
                           metrics |-> found[k].metrics,
                           samples |-> found[k].offenders]],
     metric_summary |-> GetOr(diagnostics, "aggregate_metrics", EmptyDict)]

\* build_llm_client: OpenAIClient when an API key is configured, else DummyLLM
LLMClients == {"DummyLLM", "OpenAIClient"}

\* llm_client.generate(prompt): DummyLLM returns its header and the prompt;
\* OpenAIClient returns the joined text, "" for an empty output, or the
\* exception of the remote call
Generate(client, prompt) ==
    IF client = "DummyLLM"
    THEN {Str([text |-> "Automated insight summary:", echo |-> <<prompt>>])}
    ELSE {Str([text |-> "completion", echo |-> <<>>]),
          Str([text |-> "", echo |-> <<>>]),
          Raise("APIError")}

\* InsightEngine._compose_narrative, given the outcome of the generate call
_compose_narrative(state, generated) ==
    ("insights" :> state["insights"])
    @@ ("summary" :> state["summary"])
    @@ ("column_mapping" :> state["column_mapping"])
    @@ ("diagnostics" :> Put(state["diagnostics"], "narrative", generated.val))
    @@ state

\* lines 118-122: the InsightResponse built from the final state
ResponseOf(final_state) ==
    [column_mapping |-> final_state["column_mapping"],
     insights |-> GetOr(final_state, "insights", <<>>),
     diagnostics |-> GetOr(final_state, "diagnostics", EmptyDict)]

(***************************************************************************)
(* Engine runs: one call of InsightEngine.run (default agents, no extra     *)
(* rules) on a payload of at most MaxRecords records.                       *)
(***************************************************************************)
RecordPool ==
    {<< <<"Spend", PyInt(80)>>, <<"Purchases", PyInt(0)>>, <<"ROAS", PyStr("0.9")>> >>,
     << <<"ROAS", PyStr("1.5")>>, <<"Spend", PyInt(150)>>, <<"Purchases", PyInt(3)>> >>,
     << <<"cost", PyInt(60)>>, <<"Spend", PyStr("n/a")>>, <<"Frequency", PyInt(4)>> >>,
     << <<"CTR %", PyStr("2%")>>, <<"CTR prev7", PyInt(3)>>, <<"Status (keep)", PyStr("keep")>> >>,
     << <<"", PyInt(70)>>, <<"Spend", PyInt(20)>>, <<"cost", PyInt(5)>> >>}

EngineHints == {<<>>, << <<"spend", "cost">> >>, << <<"roas", "">> >>}

PayloadPool ==
    [form : {"dict", "InsightRequest"},
     data : SeqsUpTo(RecordPool, MaxRecords),
     column_hints : EngineHints]

NoResponse == [column_mapping |-> MappingOf({}), insights |-> <<>>, diagnostics |-> EmptyDict]

EngineIdle ==
    /\ payload = [form |-> "dict", data |-> <<>>, column_hints |-> <<>>]
    /\ epc = "idle"
    /\ estate = EmptyDict
    /\ trace = <<>>
    /\ error = ""
    /\ response = NoResponse

EngineStart ==
    /\ payload \in PayloadPool
    /\ epc = "validate"
    /\ estate = EmptyDict
    /\ trace = <<>>
    /\ error = ""
    /\ response = NoResponse

\* InsightRequest(...) by the caller or model_validate in run: _ensure_data,
\* then the initial state handed to the graph
Validate ==
    /\ epc = "validate"
    /\ LET checked == _ensure_data(payload.data)
       IN  IF checked.kind = "raise"
           THEN /\ epc' = "raised"
                /\ error' = checked.val
                /\ UNCHANGED estate
           ELSE /\ epc' = "identify_columns"
                /\ estate' = InitialState(payload)
                /\ UNCHANGED error
    /\ UNCHANGED <<payload, trace, response>>
    /\ UNCHANGED <<resolverVars, metricVars, ruleVars>>

\* node identify_columns
IdentifyColumns ==
    /\ epc = "identify_columns"
    /\ trace' = Append(trace, "identify_columns")
    /\ LET Step(r) ==
               IF r.raised.kind = "raise"
               THEN /\ epc' = "raised"
                    /\ error' = r.raised.val
                    /\ UNCHANGED estate
               ELSE /\ epc' = "calculate_metrics"
                    /\ estate' = r.state
                    /\ UNCHANGED error
       IN  Step(_identify_columns(estate))
    /\ UNCHANGED <<payload, response>>
    /\ UNCHANGED <<resolverVars, metricVars, ruleVars>>

\* node calculate_metrics
CalculateMetrics ==
    /\ epc = "calculate_metrics"
    /\ trace' = Append(trace, "calculate_metrics")
    /\ estate' = _calculate_metrics(estate)
    /\ epc' = "generate_insights"
    /\ UNCHANGED <<payload, error, response>>
    /\ UNCHANGED <<resolverVars, metricVars, ruleVars>>

\* node generate_insights
GenerateInsightsNode ==
    /\ epc = "generate_insights"
    /\ trace' = Append(trace, "generate_insights")
    /\ estate' = _generate_insights(estate, RuleRegistry(<<>>))
    /\ epc' = "compose_narrative"
    /\ UNCHANGED <<payload, error, response>>
    /\ UNCHANGED <<resolverVars, metricVars, ruleVars>>

\* compose_narrative calling generate again after an exception
ComposeNarrativeRetrying ==
    /\ epc = "compose_narrative"
    /\ trace' = Append(trace, "compose_narrative")
    /\ \E client \in LLMClients :
       \E generated \in Generate(client, _build_prompt(estate["insights"],
                                                       estate["diagnostics"])) :
          IF generated.kind = "raise"
          THEN /\ epc' = "compose_narrative"
               /\ UNCHANGED <<estate, error>>
          ELSE /\ epc' = "respond"
               /\ estate' = _compose_narrative(estate, generated)
               /\ UNCHANGED error
    /\ UNCHANGED <<payload, response>>
    /\ UNCHANGED <<resolverVars, metricVars, ruleVars>>

\* node compose_narrative: one generate call, whose exception leaves run
ComposeNarrative ==
    /\ epc = "compose_narrative"
    /\ trace' = Append(trace, "compose_narrative")
    /\ \E client \in LLMClients :
       \E generated \in Generate(client, _build_prompt(estate["insights"],
                                                       estate["diagnostics"])) :
          IF generated.kind = "raise"
          THEN /\ epc' = "raised"
               /\ error' = generated.val
               /\ UNCHANGED estate
          ELSE /\ epc' = "respond"
               /\ estate' = _compose_narrative(estate, generated)
               /\ UNCHANGED error
    /\ UNCHANGED <<payload, response>>
    /\ UNCHANGED <<resolverVars, metricVars, ruleVars>>

\* lines 118-122: run returns the response
Respond ==
    /\ epc = "respond"
    /\ response' = ResponseOf(estate)
    /\ epc' = "done"
    /\ UNCHANGED <<payload, estate, trace, error>>
    /\ UNCHANGED <<resolverVars, metricVars, ruleVars>>

(***************************************************************************)
(* Properties of the engine.                                                *)
(***************************************************************************)
\* C10: a request with an empty row sequence fails validation before any
\* pipeline stage: run on it ends in a validation failure, returns no response,
\* and never invokes column identification, metric calculation, rule
\* evaluation or the narrative generator.
C10_EmptyDataRejected ==
    payload.data = <<>> =>
        /\ trace = <<>>
        /\ epc \in {"idle", "validate", "raised"}
        /\ epc = "raised" => error = "ValidationError"
        /\ response = NoResponse

\* C10 witness: a run on an empty row sequence ended in the validation failure
C10_Witness ==
    /\ payload.data = <<>>
    /\ epc = "raised"
    /\ error = "ValidationError"
    /\ trace = <<>>


\* the four nodes in the order of the graph's edges
Stages == <<"identify_columns", "calculate_metrics", "generate_insights",
            "compose_narrative">>

RunOver == epc \in {"done", "raised"}
NarrativeRan == Len(trace) = Len(Stages)

\* C11: the analytical result does not depend on narrative success: once the
\* narrative stage of a valid request has run, whether the generator returned
\* text, returned "" or raised, run returns a response carrying the resolved
\* column mapping and the findings of the rule engine.
C11_NarrativeIndependent ==
    (NarrativeRan /\ RunOver) =>
        /\ epc = "done"
        /\ response.column_mapping = estate["column_mapping"]
        /\ response.insights = estate["insights"]

\* the step of run that comes next, between validation and the response
NextStage ==
    IF epc = "validate" THEN epc
    ELSE IF Len(trace) < Len(Stages) THEN Stages[Len(trace) + 1]
    ELSE "respond"

ResolvedInResponse(c) == response.column_mapping[c] # NoneV

\* C13 as claimed: for every successful run, the response diagnostics contain
\* the list of canonical metrics that resolved (those the response's column
\* mapping maps to a header), the full aggregate summary, a narrative entry,
\* and insight_count equal to the number of findings in the response.
C13_Diagnostics ==
    epc = "done" =>
        /\ {"column_mapping_confidence", "aggregate_metrics", "narrative", "insight_count"}
               \subseteq DOMAIN response.diagnostics
        /\ response.diagnostics["column_mapping_confidence"]
               = SelectSeq(CanonicalOrder, ResolvedInResponse)
        /\ response.diagnostics["aggregate_metrics"] = estate["summary"].aggregates
        /\ response.diagnostics["insight_count"] = Len(response.insights)

\* the metric is mapped to a header that is not the empty string
MappedToNamedHeader(c) ==
    response.column_mapping[c].kind = "str" /\ response.column_mapping[c].val # ""

\* C13 amended: for every successful run, the response diagnostics contain the
\* list, in vocabulary order, of the canonical metrics mapped to a non-empty
\* header (a metric mapped to the empty-string header is in the column mapping
\* but not in the list), the aggregates of the summary, a narrative entry, and
\* insight_count equal to the number of findings in the response.
C13_AmendedDiagnostics ==
    epc = "done" =>
        /\ {"column_mapping_confidence", "aggregate_metrics", "narrative", "insight_count"}
               \subseteq DOMAIN response.diagnostics
        /\ response.diagnostics["column_mapping_confidence"]
               = SelectSeq(CanonicalOrder, MappedToNamedHeader)
        /\ response.diagnostics["aggregate_metrics"] = estate["summary"].aggregates
        /\ response.diagnostics["insight_count"] = Len(response.insights)

\* C13 witness: a successful run with resolved metrics, aggregates and findings
C13_Witness ==
    /\ epc = "done"
    /\ response.diagnostics["column_mapping_confidence"] # <<>>
    /\ DOMAIN response.diagnostics["aggregate_metrics"] # {}
    /\ response.diagnostics["insight_count"] >= 2
    /\ response.diagnostics["narrative"].text = ""


\* the headers of the request's first record, in its key order
FirstRecordHeaders == [k \in DOMAIN payload.data[1] |-> payload.data[1][k][1]]

HeadersOfRow(i) == {payload.data[i][k][1] : k \in DOMAIN payload.data[i]}

\* the value row i of the request holds under header h, None when it has none
RowValue(i, h) ==
    IF h \in HeadersOfRow(i)
    THEN payload.data[i][CHOOSE k \in DOMAIN payload.data[i] : payload.data[i][k][1] = h][2]
    ELSE PyNone

ResolverInit == ResolverStart /\ MetricIdle /\ RuleIdle /\ EngineIdle
ResolverNext == Identify /\ UNCHANGED <<metricVars, ruleVars, engineVars>>
SpecResolver == ResolverInit /\ [][ResolverNext]_vars

MetricInit == MetricStart /\ ResolverIdle /\ RuleIdle /\ EngineIdle
MetricNext == Calculate /\ UNCHANGED <<resolverVars, ruleVars, engineVars>>
SpecMetrics == MetricInit /\ [][MetricNext]_vars

RuleInit == RuleStart /\ ResolverIdle /\ MetricIdle /\ EngineIdle
RuleNext == GenerateInsights /\ UNCHANGED <<resolverVars, metricVars, engineVars>>
SpecRules == RuleInit /\ [][RuleNext]_vars

EngineInit == EngineStart /\ ResolverIdle /\ MetricIdle /\ RuleIdle
EngineNext ==
    \/ Validate
    \/ IdentifyColumns
    \/ CalculateMetrics
    \/ GenerateInsightsNode
    \/ ComposeNarrative
    \/ Respond
SpecEngine == EngineInit /\ [][EngineNext]_vars

====
